---- MODULE Spec2Model ----
(***************************************************************************)
(* Model of the ingest staging and live-telemetry synchronisation code of  *)
(* the operator console: the selection tree helpers of IngestView          *)
(* (updateNodeChecked, extractCheckedFiles), the IngestView component      *)
(* (status polling effect, scan, toggle, start-ingest handler), the        *)
(* ThoughtStream component (inspection-frame polling effect and its        *)
(* bounded buffer) and the api client functions they call.                 *)
(*                                                                         *)
(* React is modelled by its documented contract: a state setter, the       *)
(* re-render it causes and the effect cleanups/effects that re-render      *)
(* triggers run to completion before the next callback; a setter of an     *)
(* unmounted component does nothing.                                       *)
(***************************************************************************)
EXTENDS Integers, Sequences, FiniteSets, TLC

(***************************************************************************)
(* Bounds of the model.                                                    *)
(***************************************************************************)
MaxNodes == 4          \* nodes of a tree given to the pure tree helpers
MaxScanNodes == 2      \* nodes of a tree returned by a scan in the view model
MaxStatusInFlight == 2 \* status pulls in flight at once
FewStatusInFlight == 1 \* the same, where the status pulls are not the subject
MaxFramesInFlight == 2 \* inspection-frame pulls in flight at once
FewFramesInFlight == 1 \* the same, where the frame pulls are not the subject
MaxStartInFlight == 1  \* start-ingest requests in flight at once
MaxProduce == 2        \* batches of inspection frames the backend produces
ChunkSize == 30        \* frames of a batch the backend produces

(***************************************************************************)
(* Program constants.                                                      *)
(***************************************************************************)
BufferCap == 50        \* ThoughtStream: slice(-50)

(***************************************************************************)
(* FileNode (types.ts).  path is the absolute path, modelled as <<0>>      *)
(* followed by the child indices leading to the node; rel_path is the path *)
(* relative to the scanned root.  The optional field children is a         *)
(* sequence of length 0 (undefined) or 1 (the array of children).          *)
(***************************************************************************)
FileNode(path, type, checked, children) ==
    [path |-> path, rel_path |-> Tail(path), type |-> type,
     checked |-> checked, children |-> children]

Undefined == << >>
Some(x) == << x >>
IsDefined(opt) == Len(opt) = 1
Get(opt) == opt[1]

\* a path no scanned node has
MissingPath == << 9 >>

RECURSIVE NodeCount(_)
RECURSIVE ForestCount(_)
NodeCount(n) == 1 + (IF IsDefined(n.children) THEN ForestCount(Get(n.children)) ELSE 0)
ForestCount(f) == IF f = << >> THEN 0 ELSE NodeCount(Head(f)) + ForestCount(Tail(f))

(***************************************************************************)
(* The trees a scan can return: files and binaries without children,       *)
(* folders with an array of children (possibly empty), every node with its *)
(* own checked flag, paths unique.  TreesAt(p, n): the trees rooted at     *)
(* path p with at most n nodes.                                            *)
(***************************************************************************)
RECURSIVE TreesAt(_, _)
RECURSIVE ForestsAt(_, _, _)
TreesAt(p, n) ==
    IF n = 0 THEN {}
    ELSE { FileNode(p, ty, c, Undefined) : ty \in {"file", "binary"}, c \in BOOLEAN }
         \cup { FileNode(p, "folder", c, Some(f)) :
                    c \in BOOLEAN, f \in ForestsAt(p, 1, n - 1) }
ForestsAt(p, i, n) ==
    { << >> } \cup
    UNION { { << t >> \o f : f \in ForestsAt(p, i + 1, n - NodeCount(t)) } :
                t \in TreesAt(Append(p, i), n) }

RootPath == << 0 >>
Trees == TreesAt(RootPath, MaxNodes)
ScanTrees == TreesAt(RootPath, MaxScanNodes)

(***************************************************************************)
(* updateNodeChecked (IngestView): clone the tree, setting checked on the  *)
(* node whose path is targetPath and on its whole subtree.                 *)
(***************************************************************************)
\* variant: sets the flag on the node only, not on its children
updateRecursive_shallow(n, checked) == [n EXCEPT !.checked = checked]

\* variant: inverts each flag instead of setting it
RECURSIVE updateRecursive_flip(_, _)
RECURSIVE updateRecursiveEach_flip(_, _)
updateRecursiveEach_flip(children, checked) ==
    IF children = << >> THEN << >>
    ELSE << updateRecursive_flip(Head(children), checked) >>
         \o updateRecursiveEach_flip(Tail(children), checked)
updateRecursive_flip(n, checked) ==
    [n EXCEPT !.checked = ~n.checked,
              !.children = IF IsDefined(n.children)
                           THEN Some(updateRecursiveEach_flip(Get(n.children), checked))
                           ELSE Undefined]

RECURSIVE updateRecursive(_, _)
RECURSIVE updateRecursiveEach(_, _)
updateRecursiveEach(children, checked) ==
    IF children = << >> THEN << >>
    ELSE << updateRecursive(Head(children), checked) >>
         \o updateRecursiveEach(Tail(children), checked)
updateRecursive(n, checked) ==
    [n EXCEPT !.checked = checked,
              !.children = IF IsDefined(n.children)
                           THEN Some(updateRecursiveEach(Get(n.children), checked))
                           ELSE Undefined]

\* variant: a folder takes the new flag when the target is one of its children
RECURSIVE updateNodeChecked_up(_, _, _)
RECURSIVE updateNodeCheckedEach_up(_, _, _)
updateNodeCheckedEach_up(children, targetPath, newChecked) ==
    IF children = << >> THEN << >>
    ELSE << updateNodeChecked_up(Head(children), targetPath, newChecked) >>
         \o updateNodeCheckedEach_up(Tail(children), targetPath, newChecked)
updateNodeChecked_up(root, targetPath, newChecked) ==
    IF root.path = targetPath
    THEN updateRecursive(root, newChecked)
    ELSE IF IsDefined(root.children)
         THEN [root EXCEPT
                  !.checked = IF \E i \in 1 .. Len(Get(root.children)) :
                                     Get(root.children)[i].path = targetPath
                              THEN newChecked ELSE root.checked,
                  !.children =
                      Some(updateNodeCheckedEach_up(Get(root.children), targetPath, newChecked))]
         ELSE root

\* variant: a node without children is updated whatever its path
RECURSIVE updateNodeChecked_leaf(_, _, _)
RECURSIVE updateNodeCheckedEach_leaf(_, _, _)
updateNodeCheckedEach_leaf(children, targetPath, newChecked) ==
    IF children = << >> THEN << >>
    ELSE << updateNodeChecked_leaf(Head(children), targetPath, newChecked) >>
         \o updateNodeCheckedEach_leaf(Tail(children), targetPath, newChecked)
updateNodeChecked_leaf(root, targetPath, newChecked) ==
    IF root.path = targetPath
    THEN updateRecursive(root, newChecked)
    ELSE IF IsDefined(root.children)
         THEN [root EXCEPT !.children =
                  Some(updateNodeCheckedEach_leaf(Get(root.children), targetPath, newChecked))]
         ELSE [root EXCEPT !.checked = newChecked]

RECURSIVE updateNodeChecked(_, _, _)
RECURSIVE updateNodeCheckedEach(_, _, _)
updateNodeCheckedEach(children, targetPath, newChecked) ==
    IF children = << >> THEN << >>
    ELSE << updateNodeChecked(Head(children), targetPath, newChecked) >>
         \o updateNodeCheckedEach(Tail(children), targetPath, newChecked)
updateNodeChecked(root, targetPath, newChecked) ==
    IF root.path = targetPath
    THEN updateRecursive(root, newChecked)
    ELSE IF IsDefined(root.children)
         THEN [root EXCEPT !.children =
                  Some(updateNodeCheckedEach(Get(root.children), targetPath, newChecked))]
         ELSE root

(***************************************************************************)
(* extractCheckedFiles (IngestView): rel_path of the checked files.        *)
(***************************************************************************)
\* variant: no test of the node's type
RECURSIVE extractCheckedFiles_anyType(_)
RECURSIVE extractForEach_anyType(_)
extractCheckedFiles_anyType(node) ==
    (IF node.checked THEN << node.rel_path >> ELSE << >>)
    \o (IF IsDefined(node.children)
        THEN extractForEach_anyType(Get(node.children)) ELSE << >>)
extractForEach_anyType(children) ==
    IF children = << >> THEN << >>
    ELSE extractCheckedFiles_anyType(Head(children))
         \o extractForEach_anyType(Tail(children))

RECURSIVE extractCheckedFiles(_)
RECURSIVE extractForEach(_)
extractCheckedFiles(node) ==
    (IF node.type = "file" /\ node.checked THEN << node.rel_path >> ELSE << >>)
    \o (IF IsDefined(node.children) THEN extractForEach(Get(node.children)) ELSE << >>)
extractForEach(children) ==
    IF children = << >> THEN << >>
    ELSE extractCheckedFiles(Head(children)) \o extractForEach(Tail(children))

(***************************************************************************)
(* Structural vocabulary for stating properties of trees, independent of   *)
(* the helpers above.  A position is the sequence of child indices leading *)
(* from the root to a node; q lies in the subtree at pos iff pos is a      *)
(* prefix of q.                                                            *)
(***************************************************************************)
RECURSIVE Positions(_)
Positions(n) ==
    { << >> } \cup
    (IF IsDefined(n.children)
     THEN UNION { { << i >> \o q : q \in Positions(Get(n.children)[i]) } :
                      i \in 1 .. Len(Get(n.children)) }
     ELSE {})

RECURSIVE At(_, _)
At(n, pos) == IF pos = << >> THEN n ELSE At(Get(n.children)[Head(pos)], Tail(pos))

IsPrefix(a, b) == Len(a) <= Len(b) /\ SubSeq(b, 1, Len(a)) = a

\* the positions of the nodes whose path is p, and everything below them
Matches(t, p) == { pos \in Positions(t) : At(t, pos).path = p }
Below(t, p) == { q \in Positions(t) : \E pos \in Matches(t, p) : IsPrefix(pos, q) }

\* a node without its checked flag and without its children
Label(n) == [path |-> n.path, rel_path |-> n.rel_path, type |-> n.type,
             hasChildren |-> IsDefined(n.children)]
SameShape(a, b) ==
    /\ Positions(a) = Positions(b)
    /\ \A q \in Positions(a) : Label(At(a, q)) = Label(At(b, q))

\* depth-first pre-order with children in list order = lexicographic order
RECURSIVE LexLess(_, _)
LexLess(a, b) ==
    IF a = << >> THEN b # << >>
    ELSE IF b = << >> THEN FALSE
    ELSE IF Head(a) # Head(b) THEN Head(a) < Head(b)
    ELSE LexLess(Tail(a), Tail(b))

RECURSIVE InPreOrder(_)
InPreOrder(S) ==
    IF S = {} THEN << >>
    ELSE LET first == CHOOSE a \in S : \A b \in S \ {a} : LexLess(a, b)
         IN << first >> \o InPreOrder(S \ {first})

CheckedFilePositions(t) ==
    { q \in Positions(t) : At(t, q).type = "file" /\ At(t, q).checked }
RelPathsOf(t, seq) == [i \in 1 .. Len(seq) |-> At(t, seq[i]).rel_path]
\* the selection of a tree, stated on its positions
SelectedOf(t) == RelPathsOf(t, InPreOrder(CheckedFilePositions(t)))

(***************************************************************************)
(* State.                                                                  *)
(***************************************************************************)
VARIABLES
    \* calls of the pure tree helpers: arguments, results, progress
    inTree, inPath, inChecked, outToggle, outAgain, outFiles, pc,
    \* IngestView: whether it is mounted, its prop and its useState cells
    mounted, activeDB, tree, loadingScan, status, showInspector,
    \* ThoughtStream: its useState cell (exists while the pane is rendered)
    frames,
    \* armed setInterval timers of the two polling effects
    statusTimers, telemetryTimers,
    \* asynchronous calls in flight, in issue order
    statusPulls, framePulls, scanCall, startCalls,
    \* window.alert: the message shown (the dialog blocks the page's scripts)
    alertShown,
    \* history: how the latest call of handleStartIngest ended
    startReturn,
    \* history: what is notable about the latest poll() that ended.  "stale":
    \* it wrote the snapshot after a poll() started later than it had written
    \* another response; "repeat": the same, both responses being equal;
    \* "threw": the render after its setStatus threw; "rearmed": it turned
    \* is_running on for a ThoughtStream that had had a timer before; "none"
    \* otherwise
    lastPoll,
    \* the backend: job status, undrained inspection frames, batches produced
    srvStatus, srvFrames, srvProduced,
    \* history: the frames appended to the current buffer, in arrival order
    arrived,
    \* history: the frames of the responses that the backend drained from its
    \* buffer and that failed on their way to the client
    lost,
    \* history: the latest change of the current buffer was made while the
    \* snapshot had is_running = false
    lateAppend,
    \* history: the ThoughtStream rendered before the current one held frames
    \* when it was removed
    discarded

fnVars == << inTree, inPath, inChecked, outToggle, outAgain, outFiles, pc >>
viewVars == << mounted, activeDB, tree, loadingScan, status, showInspector >>
streamVars ==
    << frames, telemetryTimers, framePulls, arrived, lost, lateAppend, discarded >>
netVars ==
    << statusTimers, statusPulls, scanCall, startCalls, alertShown, startReturn, lastPoll >>
srvVars == << srvStatus, srvFrames, srvProduced >>
vars == << fnVars, viewVars, streamVars, netVars, srvVars >>

(***************************************************************************)
(* Values of the view model.                                               *)
(***************************************************************************)
NoDB == "null"
NoAlert == "none"

\* useState<IngestStatus> initial value; also the backend's idle status
InitialStatus ==
    [is_running |-> FALSE, processed_files |-> 0, total_files |-> 0, log |-> << >>]

\* the state of an IngestView that is not mounted, and of its environment
ViewInit ==
    /\ mounted = FALSE /\ activeDB = NoDB
    /\ tree = Undefined /\ loadingScan = FALSE
    /\ status = InitialStatus /\ showInspector = TRUE
    /\ frames = << >> /\ arrived = << >>
    /\ lost = { } /\ lateAppend = FALSE /\ discarded = FALSE
    /\ statusTimers = 0 /\ telemetryTimers = 0
    /\ statusPulls = << >> /\ framePulls = << >>
    /\ scanCall = "none" /\ startCalls = << >>
    /\ alertShown = NoAlert /\ startReturn = "none" /\ lastPoll = "none"
    /\ srvStatus = InitialStatus /\ srvFrames = << >>
    /\ srvProduced = 0

(***************************************************************************)
(* The pure tree helpers applied to every tree, path and flag within the   *)
(* bounds: toggle once, toggle again with the same arguments, extract.     *)
(***************************************************************************)
PathsOf(t) == { At(t, q).path : q \in Positions(t) }

InitTree ==
    /\ inTree \in { Some(t) : t \in Trees }
    /\ inPath \in PathsOf(Get(inTree)) \cup { MissingPath }
    /\ inChecked \in BOOLEAN
    /\ outToggle = Undefined /\ outAgain = Undefined /\ outFiles = Undefined
    /\ pc = "args"
    /\ ViewInit

CallToggle ==
    /\ pc = "args"
    /\ outToggle' = Some(updateNodeChecked(Get(inTree), inPath, inChecked))
    /\ pc' = "toggled"
    /\ UNCHANGED << inTree, inPath, inChecked, outAgain, outFiles >>
    /\ UNCHANGED << viewVars, streamVars, netVars, srvVars >>

CallToggleAgain ==
    /\ pc = "toggled"
    /\ outAgain' = Some(updateNodeChecked(Get(outToggle), inPath, inChecked))
    /\ pc' = "again"
    /\ UNCHANGED << inTree, inPath, inChecked, outToggle, outFiles >>
    /\ UNCHANGED << viewVars, streamVars, netVars, srvVars >>

CallExtract ==
    /\ pc = "again"
    /\ outFiles' = Some(extractCheckedFiles(Get(inTree)))
    /\ pc' = "extracted"
    /\ UNCHANGED << inTree, inPath, inChecked, outToggle, outAgain >>
    /\ UNCHANGED << viewVars, streamVars, netVars, srvVars >>

NextTree == CallToggle \/ CallToggleAgain \/ CallExtract

SpecTree == InitTree /\ [][NextTree]_vars

Toggled == pc \in { "toggled", "again", "extracted" }

(***************************************************************************)
(* C1: after toggle(t, p, v) the node at p and every transitive descendant *)
(* of it have checked = v, whatever their flags were before.               *)
(***************************************************************************)
C1_SubtreeUniform ==
    Toggled =>
        \A q \in Below(Get(inTree), inPath) :
            /\ q \in Positions(Get(outToggle))
            /\ At(Get(outToggle), q).checked = inChecked

\* a toggle was applied to a node with a grandchild whose flag differed
C1_Witness ==
    /\ Toggled
    /\ \E pos \in Matches(Get(inTree), inPath) :
          \E q \in Positions(Get(inTree)) :
              /\ IsPrefix(pos, q) /\ Len(q) >= Len(pos) + 2
              /\ At(Get(inTree), q).checked # inChecked
              /\ At(Get(inTree), pos).checked = inChecked

(***************************************************************************)
(* C2: toggle(t, p, v) changes nothing outside the subtree at p: every     *)
(* other node (ancestors and siblings included) keeps its checked flag,    *)
(* and the tree keeps its shape: same positions, paths, rel_paths, kinds   *)
(* and child order.                                                        *)
(***************************************************************************)
C2_ToggleFrame ==
    Toggled =>
        /\ SameShape(Get(inTree), Get(outToggle))
        /\ \A q \in Positions(Get(inTree)) \ Below(Get(inTree), inPath) :
               At(Get(outToggle), q).checked = At(Get(inTree), q).checked

\* a child was toggled while its parent and a sibling held the other flag
C2_Witness ==
    /\ Toggled
    /\ \E pos \in Matches(Get(inTree), inPath) :
          /\ Len(pos) >= 1
          /\ At(Get(inTree), pos).checked # inChecked
          /\ At(Get(outToggle), SubSeq(pos, 1, Len(pos) - 1)).checked # inChecked
          /\ \E q \in Positions(Get(inTree)) :
                /\ Len(q) = Len(pos) /\ q # pos
                /\ At(Get(outToggle), q).checked # inChecked

(***************************************************************************)
(* C3: extractSelected(t) is exactly the rel_paths of the nodes that are   *)
(* checked files, in depth-first pre-order with children in list order;    *)
(* checked folders and binaries contribute nothing, and a checked file     *)
(* under an unchecked folder is included.                                  *)
(***************************************************************************)
C3_ExtractCheckedFiles ==
    pc = "extracted" =>
        Get(outFiles) = SelectedOf(Get(inTree))

\* two files selected, one of them under an unchecked folder, beside a
\* checked node that is not a file
C3_Witness ==
    /\ pc = "extracted"
    /\ Len(Get(outFiles)) >= 2
    /\ \E q \in CheckedFilePositions(Get(inTree)) :
          Len(q) >= 1 /\ ~At(Get(inTree), SubSeq(q, 1, Len(q) - 1)).checked
    /\ \E q \in Positions(Get(inTree)) :
          At(Get(inTree), q).type # "file" /\ At(Get(inTree), q).checked

(***************************************************************************)
(* C4: when no node of t has path p, toggle(t, p, v) returns a tree equal  *)
(* to t (same nodes, flags and order), and the call completes.             *)
(***************************************************************************)
C4_MissingPathNoOp ==
    (Toggled /\ Matches(Get(inTree), inPath) = {}) => Get(outToggle) = Get(inTree)

\* a toggle with a path of no node, on a tree with flags different from v
C4_Witness ==
    /\ Toggled /\ inPath = MissingPath
    /\ NodeCount(Get(inTree)) >= 3
    /\ \E q \in Positions(Get(inTree)) : At(Get(inTree), q).checked # inChecked

(***************************************************************************)
(* C5: toggle is idempotent: toggle(toggle(t, p, v), p, v) equals          *)
(* toggle(t, p, v).                                                        *)
(***************************************************************************)
C5_ToggleIdempotent ==
    pc \in { "again", "extracted" } => Get(outAgain) = Get(outToggle)

\* the second toggle was applied to a tree the first toggle had changed
C5_Witness ==
    /\ pc \in { "again", "extracted" }
    /\ Get(outToggle) # Get(inTree)
    /\ NodeCount(Get(inTree)) >= 3

(***************************************************************************)
(* The view model: IngestView, ThoughtStream, the api client and the       *)
(* backend they talk to.                                                   *)
(***************************************************************************)
KBs == { NoDB, "kb" }

RemoveAt(s, i) == SubSeq(s, 1, i - 1) \o SubSeq(s, i + 1, Len(s))

\* the calls of a component that has been unmounted: their setters do nothing
RECURSIVE Orphan(_)
Orphan(calls) ==
    IF calls = << >> THEN << >>
    ELSE << [Head(calls) EXCEPT !.live = FALSE] >> \o Orphan(Tail(calls))

\* the pulls of an unmounted ThoughtStream: one that the backend has answered
\* only has a setter left to call, and is dropped; one that it has not
\* answered yet will still drain the backend's buffer
RECURSIVE OrphanPulls(_)
OrphanPulls(pulls) ==
    IF pulls = << >> THEN << >>
    ELSE (IF Head(pulls).stage = "sent"
          THEN << [Head(pulls) EXCEPT !.live = FALSE] >> ELSE << >>)
         \o OrphanPulls(Tail(pulls))

\* api.getIngestStatus / api.getInspectionFrames: a fetch that has been issued
\* history in overtaken: the response written by the latest-started poll()
\* that has ended while this one was awaiting
StatusPull == [stage |-> "sent", body |-> Undefined, overtaken |-> Undefined]
FramesPull(isLive) == [live |-> isLive, stage |-> "sent", frames |-> << >>]

\* [...prev, ...data.frames].slice(-50)
Slice(s, n) == IF Len(s) <= n THEN s ELSE SubSeq(s, Len(s) - n + 1, Len(s))
\* variant: the oldest entries are kept
appendFrames_head(prev, batch) ==
    IF Len(prev \o batch) <= BufferCap THEN prev \o batch
    ELSE SubSeq(prev \o batch, 1, BufferCap)

\* what a frame shows (InspectionFrame has no identifier: two frames that
\* the backend emits for the same chunk, in two batches, are equal to the
\* client)
Content(f) == ((f - 1) % ChunkSize) + 1

\* the frames of batch whose content no frame of prev has
RECURSIVE Unseen(_, _)
Unseen(prev, batch) ==
    IF batch = << >> THEN << >>
    ELSE (IF \E j \in 1 .. Len(prev) : Content(prev[j]) = Content(Head(batch))
          THEN << >> ELSE << Head(batch) >>)
         \o Unseen(prev, Tail(batch))

\* variant: frames equal to one in the buffer are filtered out
appendFrames_dedup(prev, batch) == Slice(prev \o Unseen(prev, batch), BufferCap)

appendFrames(prev, batch) == Slice(prev \o batch, BufferCap)

\* variant: the effect never clears its interval
ThoughtStreamEffect_noCleanup(timers, wasShown, wasRunning, nowShown, nowRunning) ==
    LET rerun == (wasShown # nowShown) \/ (nowShown /\ wasRunning # nowRunning)
    IN IF rerun /\ nowShown /\ nowRunning THEN timers + 1 ELSE timers

\* variant: the effect arms its interval whatever isRunning is
ThoughtStreamEffect_noGate(timers, wasShown, wasRunning, nowShown, nowRunning) ==
    LET rerun == (wasShown # nowShown) \/ (nowShown /\ wasRunning # nowRunning)
        cleaned == IF rerun /\ wasShown THEN timers - 1 ELSE timers
    IN IF rerun /\ nowShown THEN cleaned + 1 ELSE cleaned

\* variant: the effect has no dependency and runs at mount and unmount only
ThoughtStreamEffect_once(timers, wasShown, wasRunning, nowShown, nowRunning) ==
    LET rerun == (wasShown # nowShown)
        cleaned == IF rerun /\ wasShown /\ timers > 0 THEN timers - 1 ELSE timers
    IN IF rerun /\ nowShown /\ nowRunning THEN cleaned + 1 ELSE cleaned

(***************************************************************************)
(* ThoughtStream's polling effect, useEffect(..., [isRunning]): the number *)
(* of armed intervals after a render.  The effect runs when the component  *)
(* mounts and when isRunning changes; its cleanup (clearInterval) runs     *)
(* before the next run and at unmount, if the previous run armed a timer.  *)
(***************************************************************************)
ThoughtStreamEffect(timers, wasShown, wasRunning, nowShown, nowRunning) ==
    LET rerun == (wasShown # nowShown) \/ (nowShown /\ wasRunning # nowRunning)
        cleaned == IF rerun /\ wasShown /\ wasRunning THEN timers - 1 ELSE timers
    IN IF rerun /\ nowShown /\ nowRunning THEN cleaned + 1 ELSE cleaned

\* ThoughtStream is rendered by a mounted IngestView whose showInspector is set
Shown == mounted /\ showInspector

\* variant: the pane is hidden on the page and ThoughtStream stays mounted
\* with its frames; its interval is cleared while it is hidden
Rerender_hiddenKeepsFrames(nowMounted, nowShow, nowRunning) ==
    LET nowShown == nowMounted /\ nowShow
    IN /\ telemetryTimers' = ThoughtStreamEffect(telemetryTimers, Shown,
                                 status.is_running, nowShown, nowRunning)
       /\ frames' = IF nowMounted THEN frames ELSE << >>
       /\ arrived' = IF nowMounted THEN arrived ELSE << >>
       /\ lateAppend' = IF nowMounted THEN lateAppend ELSE FALSE
       /\ discarded' = IF Shown /\ ~nowShown THEN frames # << >> ELSE discarded
       /\ lost' = lost
       /\ framePulls' = IF Shown /\ ~nowShown THEN OrphanPulls(framePulls) ELSE framePulls

(***************************************************************************)
(* A render of IngestView after its state changed: ThoughtStream is        *)
(* mounted, updated or unmounted.  Unmounting it discards its frames and   *)
(* leaves its pulls in flight without a component to update.               *)
(***************************************************************************)
Rerender(nowMounted, nowShow, nowRunning) ==
    LET nowShown == nowMounted /\ nowShow
    IN /\ telemetryTimers' = ThoughtStreamEffect(telemetryTimers, Shown,
                                 status.is_running, nowShown, nowRunning)
       /\ frames' = IF Shown /\ nowShown THEN frames ELSE << >>
       /\ arrived' = IF Shown /\ nowShown THEN arrived ELSE << >>
       /\ lateAppend' = IF Shown /\ nowShown THEN lateAppend ELSE FALSE
       /\ discarded' = IF Shown /\ ~nowShown THEN frames # << >> ELSE discarded
       /\ lost' = lost
       /\ framePulls' = IF Shown /\ ~nowShown THEN OrphanPulls(framePulls) ELSE framePulls

\* the parent passes another activeDB
SetActiveDB(db) ==
    /\ alertShown = NoAlert
    /\ db # activeDB
    /\ activeDB' = db
    /\ UNCHANGED << fnVars, mounted, tree, loadingScan, status, showInspector >>
    /\ UNCHANGED << streamVars, netVars, srvVars >>

\* variant: the polling effect only arms its interval
Mount_noFirstPoll(cap) ==
    /\ ~mounted /\ alertShown = NoAlert
    /\ Len(statusPulls) < cap
    /\ mounted' = TRUE
    /\ tree' = Undefined /\ loadingScan' = FALSE
    /\ status' = InitialStatus /\ showInspector' = TRUE
    /\ statusPulls' = statusPulls
    /\ statusTimers' = statusTimers + 1
    /\ Rerender(TRUE, TRUE, FALSE)
    /\ startReturn' = "none" /\ lastPoll' = "none"
    /\ UNCHANGED << fnVars, activeDB, scanCall, startCalls, alertShown, srvVars >>

\* IngestView mounts: initial state, then the polling effect: poll() at once
\* and setInterval(poll, 1000).  cap bounds the status pulls in flight.
Mount(cap) ==
    /\ ~mounted /\ alertShown = NoAlert
    /\ Len(statusPulls) < cap
    /\ mounted' = TRUE
    /\ tree' = Undefined /\ loadingScan' = FALSE
    /\ status' = InitialStatus /\ showInspector' = TRUE
    /\ statusPulls' = Append(statusPulls, StatusPull)
    /\ statusTimers' = statusTimers + 1
    /\ Rerender(TRUE, TRUE, FALSE)
    /\ startReturn' = "none" /\ lastPoll' = "none"
    /\ UNCHANGED << fnVars, activeDB, scanCall, startCalls, alertShown, srvVars >>

\* variant: the polling effect has no cleanup
Teardown_timerLeft ==
    /\ mounted' = FALSE
    /\ tree' = Undefined /\ loadingScan' = FALSE
    /\ status' = InitialStatus /\ showInspector' = TRUE
    /\ statusTimers' = statusTimers
    /\ statusPulls' = << >>
    /\ startCalls' = Orphan(startCalls)
    /\ scanCall' = IF scanCall = "live" THEN "orphan" ELSE scanCall
    /\ Rerender(FALSE, TRUE, FALSE)
    /\ startReturn' = "none"

\* IngestView is removed from the page: the effects' cleanups run, the state
\* is dropped.  The status pulls in flight only have setStatus left to call,
\* on a component that is gone: they are dropped.
Teardown ==
    /\ mounted' = FALSE
    /\ tree' = Undefined /\ loadingScan' = FALSE
    /\ status' = InitialStatus /\ showInspector' = TRUE
    /\ statusTimers' = statusTimers - 1
    /\ statusPulls' = << >>
    /\ startCalls' = Orphan(startCalls)
    /\ scanCall' = IF scanCall = "live" THEN "orphan" ELSE scanCall
    /\ Rerender(FALSE, TRUE, FALSE)
    /\ startReturn' = "none"

\* the parent stops rendering IngestView
Unmount ==
    /\ mounted /\ alertShown = NoAlert
    /\ Teardown
    /\ lastPoll' = "none"
    /\ UNCHANGED << fnVars, activeDB, alertShown, srvVars >>

\* variant: the interval stops polling while the snapshot reports no job
StatusTick_whileRunning(cap) ==
    /\ statusTimers > 0 /\ alertShown = NoAlert
    /\ status.is_running
    /\ Len(statusPulls) < cap
    /\ statusPulls' = Append(statusPulls, StatusPull)
    /\ UNCHANGED << fnVars, viewVars, streamVars, srvVars >>
    /\ UNCHANGED << statusTimers, lastPoll, scanCall, startCalls, alertShown, startReturn >>

\* a tick of the status interval: poll().  cap bounds the pulls in flight.
StatusTick(cap) ==
    /\ statusTimers > 0 /\ alertShown = NoAlert
    /\ Len(statusPulls) < cap
    /\ statusPulls' = Append(statusPulls, StatusPull)
    /\ UNCHANGED << fnVars, viewVars, streamVars, srvVars >>
    /\ UNCHANGED << statusTimers, lastPoll, scanCall, startCalls, alertShown, startReturn >>

\* the backend answers a status request with its current status
StatusServed(i) ==
    /\ statusPulls[i].stage = "sent"
    /\ statusPulls' = [statusPulls EXCEPT ![i].stage = "ok",
                                          ![i].body = Some(srvStatus)]
    /\ UNCHANGED << fnVars, viewVars, streamVars, srvVars >>
    /\ UNCHANGED << statusTimers, lastPoll, scanCall, startCalls, alertShown, startReturn >>

\* the backend answers a status request with a non-OK response whose JSON
\* body is an error object ({ detail }), not a JobStatus
StatusServedNotOk(i) ==
    /\ statusPulls[i].stage = "sent"
    /\ statusPulls' = [statusPulls EXCEPT ![i].stage = "notok"]
    /\ UNCHANGED << fnVars, viewVars, streamVars, srvVars >>
    /\ UNCHANGED << statusTimers, lastPoll, scanCall, startCalls, alertShown, startReturn >>

\* the pulls in flight after the i-th has ended with setStatus(s): those
\* started before it are overtaken by it, unless it was overtaken itself
\* (then they were overtaken with it, by a poll started still later)
AfterWrite(pulls, i) ==
    LET rest == RemoveAt(pulls, i)
    IN IF IsDefined(pulls[i].overtaken) THEN rest
       ELSE [j \in 1 .. Len(rest) |->
                IF j < i THEN [rest[j] EXCEPT !.overtaken = pulls[i].body] ELSE rest[j]]

\* the ThoughtStream on the page has issued pulls: some have arrived or are
\* in flight
HadTimer == arrived # << >> \/ \E j \in 1 .. Len(framePulls) : framePulls[j].live

\* what is notable about the end of a pull with setStatus(s)
WriteKind(pull) ==
    IF IsDefined(pull.overtaken)
    THEN (IF pull.overtaken = pull.body THEN "repeat" ELSE "stale")
    ELSE IF Shown /\ HadTimer /\ ~status.is_running /\ Get(pull.body).is_running
    THEN "rearmed"
    ELSE "none"

\* api.getIngestStatus: return res.json(), whatever res.ok is.  The value is
\* a JobStatus, or Undefined for a body that has none of its fields.
getIngestStatus(pull) == pull.body

\* variant: the response is merged into the snapshot (its log is appended)
setStatus_merge(prev, s) == [s EXCEPT !.log = prev.log \o s.log]

\* poll: setStatus(s)
setStatus(prev, s) == s

\* variant: the response of a poll() that was overtaken is discarded
StatusResolve_dropStale(i) ==
    /\ alertShown = NoAlert
    /\ statusPulls[i].stage \in { "ok", "notok" }
    /\ LET s == getIngestStatus(statusPulls[i])
       IN IF ~mounted \/ (IsDefined(s) /\ IsDefined(statusPulls[i].overtaken))
          THEN /\ statusPulls' = RemoveAt(statusPulls, i)
               /\ UNCHANGED << viewVars, streamVars >>
               /\ UNCHANGED << statusTimers, lastPoll, scanCall, startCalls, startReturn >>
          ELSE IF IsDefined(s)
          THEN /\ statusPulls' = AfterWrite(statusPulls, i)
               /\ status' = setStatus(status, Get(s))
               /\ Rerender(mounted, showInspector, status'.is_running)
               /\ lastPoll' = WriteKind(statusPulls[i])
               /\ UNCHANGED << mounted, activeDB, tree, loadingScan, showInspector >>
               /\ UNCHANGED << statusTimers, scanCall, startCalls, startReturn >>
          ELSE /\ Teardown
               /\ lastPoll' = "threw"
               /\ UNCHANGED activeDB
    /\ UNCHANGED << fnVars, alertShown, srvVars >>

(***************************************************************************)
(* poll: await api.getIngestStatus() resolves; setStatus(s).  With a       *)
(* JobStatus the snapshot is replaced and the view renders again.  With an *)
(* error body the render reads status.log.length of an object without log  *)
(* and throws; there is no error boundary, so React removes the whole      *)
(* tree.                                                                   *)
(***************************************************************************)
StatusResolve(i) ==
    /\ alertShown = NoAlert
    /\ statusPulls[i].stage \in { "ok", "notok" }
    /\ LET s == getIngestStatus(statusPulls[i])
       IN IF ~mounted
          THEN /\ statusPulls' = RemoveAt(statusPulls, i)
               /\ UNCHANGED << viewVars, streamVars >>
               /\ UNCHANGED << statusTimers, lastPoll, scanCall, startCalls, startReturn >>
          ELSE IF IsDefined(s)
          THEN /\ statusPulls' = AfterWrite(statusPulls, i)
               /\ status' = setStatus(status, Get(s))
               /\ Rerender(mounted, showInspector, status'.is_running)
               /\ lastPoll' = WriteKind(statusPulls[i])
               /\ UNCHANGED << mounted, activeDB, tree, loadingScan, showInspector >>
               /\ UNCHANGED << statusTimers, scanCall, startCalls, startReturn >>
          ELSE /\ Teardown
               /\ lastPoll' = "threw"
               /\ UNCHANGED activeDB
    /\ UNCHANGED << fnVars, alertShown, srvVars >>

\* poll: the fetch throws (no response, or a body that is not JSON);
\* console.error, nothing else.  A response lost after the backend answered
\* is to the client the same as one lost before.
StatusReject(i) ==
    /\ alertShown = NoAlert
    /\ statusPulls[i].stage = "sent"
    /\ statusPulls' = RemoveAt(statusPulls, i)
    /\ UNCHANGED << fnVars, viewVars, streamVars, srvVars >>
    /\ UNCHANGED << statusTimers, lastPoll, scanCall, startCalls, alertShown, startReturn >>

\* a tick of the telemetry interval: api.getInspectionFrames() is called.
\* cap bounds the pulls in flight.
TelemetryTick(cap) ==
    /\ telemetryTimers > 0 /\ alertShown = NoAlert
    /\ Len(framePulls) < cap
    /\ framePulls' = Append(framePulls, FramesPull(Shown))
    /\ UNCHANGED << fnVars, viewVars, frames, telemetryTimers, arrived, lost, lateAppend, discarded >>
    /\ UNCHANGED << netVars, srvVars >>

\* the backend answers an inspection request with its buffer, and drains it
FramesServed(i) ==
    /\ framePulls[i].stage = "sent"
    /\ framePulls' = IF framePulls[i].live
                     THEN [framePulls EXCEPT ![i].stage = "ok", ![i].frames = srvFrames]
                     ELSE RemoveAt(framePulls, i)
    /\ srvFrames' = << >>
    /\ UNCHANGED << fnVars, viewVars, frames, telemetryTimers, arrived, lost, lateAppend, discarded >>
    /\ UNCHANGED << netVars, srvStatus, srvProduced >>

\* the backend answers an inspection request with a non-OK response
FramesServedNotOk(i) ==
    /\ framePulls[i].stage = "sent"
    /\ framePulls' = IF framePulls[i].live
                     THEN [framePulls EXCEPT ![i].stage = "notok"]
                     ELSE RemoveAt(framePulls, i)
    /\ UNCHANGED << fnVars, viewVars, frames, telemetryTimers, arrived, lost, lateAppend, discarded >>
    /\ UNCHANGED << netVars, srvVars >>

\* api.getInspectionFrames: if (!res.ok) return { frames: [] }
getInspectionFrames(pull) == IF pull.stage = "notok" THEN << >> ELSE pull.frames

\* variant: a response that arrives while isRunning is false is dropped
FramesResolve_gated(i) ==
    /\ alertShown = NoAlert
    /\ framePulls[i].stage \in { "ok", "notok" }
    /\ framePulls' = RemoveAt(framePulls, i)
    /\ LET data == getInspectionFrames(framePulls[i])
       IN IF framePulls[i].live /\ Len(data) > 0 /\ status.is_running
          THEN /\ frames' = appendFrames(frames, data)
               /\ arrived' = arrived \o data
               /\ lateAppend' = ~status.is_running
          ELSE UNCHANGED << frames, arrived, lateAppend >>
    /\ UNCHANGED << fnVars, viewVars, telemetryTimers, lost, discarded, netVars, srvVars >>

\* the interval callback resumes: setFrames(prev => [...prev, ...data.frames].slice(-50))
FramesResolve(i) ==
    /\ alertShown = NoAlert
    /\ framePulls[i].stage \in { "ok", "notok" }
    /\ framePulls' = RemoveAt(framePulls, i)
    /\ LET data == getInspectionFrames(framePulls[i])
       IN IF framePulls[i].live /\ Len(data) > 0
          THEN /\ frames' = appendFrames(frames, data)
               /\ arrived' = arrived \o data
               /\ lateAppend' = ~status.is_running
          ELSE UNCHANGED << frames, arrived, lateAppend >>
    /\ UNCHANGED << fnVars, viewVars, telemetryTimers, lost, discarded, netVars, srvVars >>

\* variant: the catch clears the interval
FramesReject_stopsTimer(i) ==
    /\ alertShown = NoAlert
    /\ framePulls' = RemoveAt(framePulls, i)
    /\ lost' = lost \cup { framePulls[i].frames[j] : j \in 1 .. Len(framePulls[i].frames) }
    /\ telemetryTimers' = 0
    /\ UNCHANGED << fnVars, viewVars, frames, arrived, lateAppend, discarded >>
    /\ UNCHANGED << netVars, srvVars >>

\* the interval callback's fetch throws: caught, nothing done
FramesReject(i) ==
    /\ alertShown = NoAlert
    /\ framePulls' = RemoveAt(framePulls, i)
    /\ lost' = lost \cup { framePulls[i].frames[j] : j \in 1 .. Len(framePulls[i].frames) }
    /\ UNCHANGED << fnVars, viewVars, frames, telemetryTimers, arrived, lateAppend, discarded >>
    /\ UNCHANGED << netVars, srvVars >>

\* handleScan up to its await (the SCAN button is disabled while loadingScan)
handleScan ==
    /\ mounted /\ alertShown = NoAlert
    /\ ~loadingScan /\ scanCall = "none"
    /\ loadingScan' = TRUE
    /\ scanCall' = "live"
    /\ UNCHANGED << fnVars, mounted, activeDB, tree, status, showInspector >>
    /\ UNCHANGED << streamVars, statusTimers, lastPoll, statusPulls, startCalls, alertShown,
                    startReturn, srvVars >>

\* handleScan after its await: if (res.tree) setTree(res.tree); setLoadingScan(false)
ScanResolve(res) ==
    /\ alertShown = NoAlert
    /\ scanCall # "none"
    /\ scanCall' = "none"
    /\ IF scanCall = "live"
       THEN /\ tree' = IF IsDefined(res) THEN res ELSE tree
            /\ loadingScan' = FALSE
       ELSE UNCHANGED << tree, loadingScan >>
    /\ UNCHANGED << fnVars, mounted, activeDB, status, showInspector >>
    /\ UNCHANGED << streamVars, statusTimers, lastPoll, statusPulls, startCalls, alertShown,
                    startReturn, srvVars >>

\* handleScan: api.scanPath throws; alert('Scan failed: ...'); setLoadingScan(false)
ScanReject ==
    /\ alertShown = NoAlert
    /\ scanCall # "none"
    /\ scanCall' = "none"
    /\ alertShown' = "Scan failed"
    /\ loadingScan' = IF scanCall = "live" THEN FALSE ELSE loadingScan
    /\ UNCHANGED << fnVars, mounted, activeDB, tree, status, showInspector >>
    /\ UNCHANGED << streamVars, statusTimers, lastPoll, statusPulls, startCalls, startReturn, srvVars >>

\* handleToggleCheck, called by a checkbox of FileTree with its node
handleToggleCheck(q, isChecked) ==
    /\ mounted /\ alertShown = NoAlert
    /\ IsDefined(tree)
    /\ tree' = Some(updateNodeChecked(Get(tree), At(Get(tree), q).path, isChecked))
    /\ UNCHANGED << fnVars, mounted, activeDB, loadingScan, status, showInspector >>
    /\ UNCHANGED << streamVars, netVars, srvVars >>

\* the user closes the alert dialog
DismissAlert ==
    /\ alertShown # NoAlert
    /\ alertShown' = NoAlert
    /\ UNCHANGED << fnVars, viewVars, streamVars, srvVars >>
    /\ UNCHANGED << statusTimers, lastPoll, statusPulls, scanCall, startCalls, startReturn >>

\* the inspector button: setShowInspector(!showInspector)
ToggleInspector ==
    /\ mounted /\ alertShown = NoAlert
    /\ showInspector' = ~showInspector
    /\ Rerender(mounted, ~showInspector, status.is_running)
    /\ UNCHANGED << fnVars, mounted, activeDB, tree, loadingScan, status >>
    /\ UNCHANGED << netVars, srvVars >>

\* api.executeIngest: the POST that has been issued (root_path and llm_model
\* play no part in what follows and are left out)
StartCall(db, files) ==
    [live |-> TRUE, stage |-> "sent", db |-> db, files |-> files, detail |-> ""]

\* variant: no test of the number of selected files
handleStartIngest_noFilesTest ==
    /\ mounted /\ alertShown = NoAlert
    /\ IF activeDB = NoDB
       THEN /\ alertShown' = "Please select a Knowledge Base first!"
            /\ startReturn' = "no-kb"
            /\ UNCHANGED startCalls
       ELSE IF ~IsDefined(tree)
       THEN /\ startReturn' = "no-tree"
            /\ UNCHANGED << alertShown, startCalls >>
       ELSE /\ Len(startCalls) < MaxStartInFlight
            /\ startCalls' = Append(startCalls,
                                    StartCall(activeDB, extractCheckedFiles(Get(tree))))
            /\ startReturn' = "sent"
            /\ UNCHANGED alertShown
    /\ UNCHANGED << fnVars, viewVars, streamVars, srvVars >>
    /\ UNCHANGED << statusTimers, lastPoll, statusPulls, scanCall >>

(***************************************************************************)
(* handleStartIngest up to its await: the two guards on activeDB and tree, *)
(* the extraction of the checked files, the guard on their number, and the *)
(* call of api.executeIngest.                                              *)
(***************************************************************************)
handleStartIngest ==
    /\ mounted /\ alertShown = NoAlert
    /\ IF activeDB = NoDB
       THEN /\ alertShown' = "Please select a Knowledge Base first!"
            /\ startReturn' = "no-kb"
            /\ UNCHANGED startCalls
       ELSE IF ~IsDefined(tree)
       THEN /\ startReturn' = "no-tree"
            /\ UNCHANGED << alertShown, startCalls >>
       ELSE IF Len(extractCheckedFiles(Get(tree))) = 0
       THEN /\ startReturn' = "no-files"
            /\ UNCHANGED << alertShown, startCalls >>
       ELSE /\ Len(startCalls) < MaxStartInFlight
            /\ startCalls' = Append(startCalls,
                                    StartCall(activeDB, extractCheckedFiles(Get(tree))))
            /\ startReturn' = "sent"
            /\ UNCHANGED alertShown
    /\ UNCHANGED << fnVars, viewVars, streamVars, srvVars >>
    /\ UNCHANGED << statusTimers, lastPoll, statusPulls, scanCall >>

\* useMemo: the number of checked files of the tree, 0 without a tree
selectedFilesCount ==
    IF IsDefined(tree) THEN Len(extractCheckedFiles(Get(tree))) ELSE 0

\* variant: the button does not look at the status snapshot
isStartDisabled_ignoresStatus ==
    ~IsDefined(tree) \/ selectedFilesCount = 0 \/ activeDB = NoDB

\* isStartDisabled = !tree || selectedFilesCount === 0 || status.is_running || !activeDB
isStartDisabled ==
    ~IsDefined(tree) \/ selectedFilesCount = 0 \/ status.is_running \/ activeDB = NoDB

\* the START INGESTION button, onClick={handleStartIngest} disabled={isStartDisabled}:
\* a click on the button as rendered from the current state
ClickStart ==
    /\ ~isStartDisabled
    /\ handleStartIngest

\* the backend accepts a start request: a job starts
StartAccepted(i) ==
    /\ startCalls[i].stage = "sent"
    /\ ~srvStatus.is_running
    /\ startCalls' = [startCalls EXCEPT ![i].stage = "ok"]
    /\ srvStatus' = [is_running |-> TRUE, processed_files |-> 0,
                     total_files |-> Len(startCalls[i].files), log |-> << "start" >>]
    /\ UNCHANGED << fnVars, viewVars, streamVars, srvFrames, srvProduced >>
    /\ UNCHANGED << statusTimers, lastPoll, statusPulls, scanCall, alertShown, startReturn >>

\* the backend starts a job asked for by another client of its API
ServerJobStarts(n) ==
    /\ ~srvStatus.is_running
    /\ srvStatus' = [is_running |-> TRUE, processed_files |-> 0,
                     total_files |-> n, log |-> << "start" >>]
    /\ UNCHANGED << fnVars, viewVars, streamVars, netVars, srvFrames, srvProduced >>

\* the backend rejects a start request, with or without a detail message
StartRejected(i, detail) ==
    /\ startCalls[i].stage = "sent"
    /\ startCalls' = [startCalls EXCEPT ![i].stage = "rejected", ![i].detail = detail]
    /\ UNCHANGED << fnVars, viewVars, streamVars, srvVars >>
    /\ UNCHANGED << statusTimers, lastPoll, statusPulls, scanCall, alertShown, startReturn >>

\* handleStartIngest after its await: setShowInspector(true)
StartResolve(i) ==
    /\ alertShown = NoAlert
    /\ startCalls[i].stage = "ok"
    /\ startCalls' = RemoveAt(startCalls, i)
    /\ IF startCalls[i].live
       THEN /\ showInspector' = TRUE
            /\ Rerender(mounted, TRUE, status.is_running)
       ELSE UNCHANGED << showInspector, streamVars >>
    /\ UNCHANGED << fnVars, mounted, activeDB, tree, loadingScan, status >>
    /\ UNCHANGED << statusTimers, lastPoll, statusPulls, scanCall, alertShown, startReturn, srvVars >>

\* variant: the detail of the response is not read
executeIngestError_noDetail(call) ==
    IF call.stage = "rejected" THEN "Ingest failed" ELSE "Failed to fetch"

\* api.executeIngest: throw new Error(err.detail || 'Ingest failed'), or the
\* error of a fetch that failed
executeIngestError(call) ==
    IF call.stage = "rejected"
    THEN (IF call.detail # "" THEN call.detail ELSE "Ingest failed")
    ELSE "Failed to fetch"

\* handleStartIngest: the await throws; alert("Ingest Error: " + e.message)
StartFail(i) ==
    /\ alertShown = NoAlert
    /\ startCalls[i].stage # "ok"
    /\ startCalls' = RemoveAt(startCalls, i)
    /\ alertShown' = << "Ingest Error: ", executeIngestError(startCalls[i]) >>
    /\ UNCHANGED << fnVars, viewVars, streamVars, srvVars >>
    /\ UNCHANGED << statusTimers, lastPoll, statusPulls, scanCall, startReturn >>

\* the backend's worker processes a file of the running job
ServerProcessFile ==
    /\ srvStatus.is_running
    /\ srvStatus.processed_files < srvStatus.total_files
    /\ srvStatus' = [srvStatus EXCEPT !.processed_files = @ + 1,
                                      !.log = Append(@, "file")]
    /\ UNCHANGED << fnVars, viewVars, streamVars, netVars >>
    /\ UNCHANGED << srvFrames, srvProduced >>

\* the frames of the b-th batch, k of them
NewFrames(b, k) == [j \in 1 .. k |-> (b - 1) * ChunkSize + j]

\* the backend's worker emits k inspection frames while the job runs
ServerProduce(k) ==
    /\ srvStatus.is_running
    /\ srvProduced < MaxProduce
    /\ srvFrames' = srvFrames \o NewFrames(srvProduced + 1, k)
    /\ srvProduced' = srvProduced + 1
    /\ UNCHANGED << fnVars, viewVars, streamVars, netVars >>
    /\ UNCHANGED srvStatus

\* the backend's job ends, completed or aborted
ServerFinish ==
    /\ srvStatus.is_running
    /\ srvStatus' = [srvStatus EXCEPT !.is_running = FALSE, !.log = Append(@, "done")]
    /\ UNCHANGED << fnVars, viewVars, streamVars, netVars >>
    /\ UNCHANGED << srvFrames, srvProduced >>

Init ==
    /\ inTree = Undefined /\ inPath = MissingPath /\ inChecked = FALSE
    /\ outToggle = Undefined /\ outAgain = Undefined /\ outFiles = Undefined
    /\ pc = "off"
    /\ ViewInit

(***************************************************************************)
(* The telemetry stream: the view with its inspector pane, both polling    *)
(* effects, and a backend whose jobs emit inspection frames.               *)
(***************************************************************************)
NextStream ==
    \/ Mount(FewStatusInFlight)
    \/ Unmount
    \/ ToggleInspector
    \/ StatusTick(FewStatusInFlight)
    \/ \E i \in 1 .. Len(statusPulls) : StatusServed(i)
    \/ \E i \in 1 .. Len(statusPulls) : StatusResolve(i)
    \/ \E i \in 1 .. Len(statusPulls) : StatusReject(i)
    \/ TelemetryTick(MaxFramesInFlight)
    \/ \E i \in 1 .. Len(framePulls) : FramesServed(i)
    \/ \E i \in 1 .. Len(framePulls) : FramesServedNotOk(i)
    \/ \E i \in 1 .. Len(framePulls) : FramesResolve(i)
    \/ \E i \in 1 .. Len(framePulls) : FramesReject(i)
    \/ ServerJobStarts(1)
    \/ ServerProduce(ChunkSize)
    \/ ServerFinish

SpecStream == Init /\ [][NextStream]_vars

(***************************************************************************)
(* The status synchroniser: the view, both polling effects with several    *)
(* status pulls in flight, and a backend whose jobs make progress.         *)
(***************************************************************************)
NextStatus ==
    \/ Mount(MaxStatusInFlight)
    \/ Unmount
    \/ ToggleInspector
    \/ StatusTick(MaxStatusInFlight)
    \/ \E i \in 1 .. Len(statusPulls) : StatusServed(i)
    \/ \E i \in 1 .. Len(statusPulls) : StatusServedNotOk(i)
    \/ \E i \in 1 .. Len(statusPulls) : StatusResolve(i)
    \/ \E i \in 1 .. Len(statusPulls) : StatusReject(i)
    \/ TelemetryTick(FewFramesInFlight)
    \/ \E i \in 1 .. Len(framePulls) : FramesServed(i)
    \/ \E i \in 1 .. Len(framePulls) : FramesResolve(i)
    \/ \E i \in 1 .. Len(framePulls) : FramesReject(i)
    \/ ServerJobStarts(1)
    \/ ServerProcessFile
    \/ ServerFinish

SpecStatus == Init /\ [][NextStatus]_vars

\* a request that was sent is answered or fails
StatusSettles ==
    \E i \in 1 .. Len(statusPulls) :
        StatusServed(i) \/ StatusServedNotOk(i) \/ StatusReject(i)

\* a poll() whose await has a response resumes
StatusResumes == \E i \in 1 .. Len(statusPulls) : StatusResolve(i)

(***************************************************************************)
(* The status synchroniser under the scheduling of the browser: an armed   *)
(* interval keeps firing, every fetch settles, and a continuation whose    *)
(* await has settled is run.                                               *)
(***************************************************************************)
SpecStatusFair ==
    /\ Init /\ [][NextStatus]_vars
    /\ WF_vars(StatusTick(MaxStatusInFlight))
    /\ WF_vars(StatusSettles)
    /\ WF_vars(StatusResumes)

(***************************************************************************)
(* Staging: the view with its prop, scans, the selection tree, the start   *)
(* handler and the start requests, the status synchroniser and the timer   *)
(* of the telemetry stream.                                                *)
(***************************************************************************)
NextStage ==
    \/ \E db \in KBs : SetActiveDB(db)
    \/ Mount(FewStatusInFlight)
    \/ Unmount
    \/ ToggleInspector
    \/ handleScan
    \/ \E res \in { Some(t) : t \in ScanTrees } \cup { Undefined } : ScanResolve(res)
    \/ ScanReject
    \/ \E q \in (IF IsDefined(tree) THEN Positions(Get(tree)) ELSE {}) :
          \E isChecked \in BOOLEAN : handleToggleCheck(q, isChecked)
    \/ handleStartIngest
    \/ \E i \in 1 .. Len(startCalls) : StartAccepted(i)
    \/ \E i \in 1 .. Len(startCalls) : \E detail \in { "", "busy" } : StartRejected(i, detail)
    \/ \E i \in 1 .. Len(startCalls) : StartResolve(i)
    \/ \E i \in 1 .. Len(startCalls) : StartFail(i)
    \/ DismissAlert
    \/ StatusTick(FewStatusInFlight)
    \/ \E i \in 1 .. Len(statusPulls) : StatusServed(i)
    \/ \E i \in 1 .. Len(statusPulls) : StatusResolve(i)
    \/ \E i \in 1 .. Len(statusPulls) : StatusReject(i)
    \/ ServerFinish

SpecStage == Init /\ [][NextStage]_vars

(***************************************************************************)
(* The rendered controls: staging where handleStartIngest is only called   *)
(* by a click on its button, whose disabled attribute follows the state,   *)
(* and where the backend also runs jobs asked for by other clients.        *)
(***************************************************************************)
NextControls ==
    \/ \E db \in KBs : SetActiveDB(db)
    \/ Mount(FewStatusInFlight)
    \/ Unmount
    \/ ToggleInspector
    \/ handleScan
    \/ \E res \in { Some(t) : t \in ScanTrees } \cup { Undefined } : ScanResolve(res)
    \/ ScanReject
    \/ \E q \in (IF IsDefined(tree) THEN Positions(Get(tree)) ELSE {}) :
          \E isChecked \in BOOLEAN : handleToggleCheck(q, isChecked)
    \/ ClickStart
    \/ \E i \in 1 .. Len(startCalls) : StartAccepted(i)
    \/ \E i \in 1 .. Len(startCalls) : \E detail \in { "", "busy" } : StartRejected(i, detail)
    \/ \E i \in 1 .. Len(startCalls) : StartResolve(i)
    \/ \E i \in 1 .. Len(startCalls) : StartFail(i)
    \/ DismissAlert
    \/ StatusTick(FewStatusInFlight)
    \/ \E i \in 1 .. Len(statusPulls) : StatusServed(i)
    \/ \E i \in 1 .. Len(statusPulls) : StatusResolve(i)
    \/ \E i \in 1 .. Len(statusPulls) : StatusReject(i)
    \/ ServerJobStarts(1)
    \/ ServerFinish

SpecControls == Init /\ [][NextControls]_vars

(***************************************************************************)
(* C6: after any sequence of telemetry pulls (answered, empty, failed,     *)
(* overlapping) the frame buffer holds at most 50 frames and equals the    *)
(* last 50 frames of the batches received, concatenated in the order the   *)
(* responses arrived, each batch in the order the backend returned it.     *)
(* The batches are those received by the buffer, i.e. since the inspector  *)
(* pane was last mounted.                                                  *)
(***************************************************************************)
C6_BufferIsLastFrames ==
    /\ Len(frames) <= BufferCap
    /\ Len(frames) = (IF Len(arrived) <= BufferCap THEN Len(arrived) ELSE BufferCap)
    /\ \A i \in 1 .. Len(frames) :
           frames[i] = arrived[Len(arrived) - Len(frames) + i]

\* more than 50 frames have arrived, a later batch before an earlier one
C6_Witness ==
    /\ Len(arrived) > BufferCap
    /\ Len(frames) = BufferCap
    /\ \E i \in 1 .. Len(arrived) - 1 : arrived[i] > arrived[i + 1]

(***************************************************************************)
(* C7: the telemetry puller is active only while the observed is_running   *)
(* flag is true: whenever the status snapshot has is_running = false no    *)
(* telemetry timer is armed, and no telemetry pull is issued in such a     *)
(* state, whatever jobs ran before.                                        *)
(***************************************************************************)
C7_PullerGated ==
    /\ [](~status.is_running => telemetryTimers = 0)
    /\ [][Len(framePulls') > Len(framePulls) => status.is_running]_vars

\* the snapshot reports the end of a job whose frames were pulled, one pull
\* still being in flight
C7_Witness ==
    /\ Shown /\ ~status.is_running
    /\ status.log # << >>
    /\ frames # << >>
    /\ framePulls # << >>

(***************************************************************************)
(* C8: handleStartIngest never issues a start request when no KB is        *)
(* selected or when the selection is empty (no tree included): every       *)
(* request sent carries a KB and a non-empty file list equal to the        *)
(* selection of the current tree.                                          *)
(***************************************************************************)
StartIssued == Len(startCalls') > Len(startCalls)
IssuedStart == startCalls'[Len(startCalls')]

C8_StartCarriesSelection ==
    /\ [](\A i \in 1 .. Len(startCalls) :
              startCalls[i].db # NoDB /\ startCalls[i].files # << >>)
    /\ [][StartIssued =>
              /\ activeDB # NoDB /\ IssuedStart.db = activeDB
              /\ IsDefined(tree)
              /\ IssuedStart.files # << >>
              /\ IssuedStart.files = SelectedOf(Get(tree))]_vars

\* the handler returned for want of files, on a tree with a checked node,
\* with a KB selected, and nothing was sent
C8_Witness ==
    /\ startReturn = "no-files"
    /\ activeDB # NoDB /\ IsDefined(tree)
    /\ \E q \in Positions(Get(tree)) : At(Get(tree), q).checked
    /\ startCalls = << >>

(***************************************************************************)
(* C9: both validation failures of handleStartIngest (no KB chosen, no     *)
(* files selected) are reported to the user at once, and leave the tree,   *)
(* the status snapshot, the frame buffer and both timers unchanged.        *)
(***************************************************************************)
ValidationFailed ==
    /\ startReturn' # startReturn
    /\ startReturn' \in { "no-kb", "no-files" }

C9_ValidationReported ==
    [][ValidationFailed =>
           /\ alertShown' # NoAlert
           /\ UNCHANGED << tree, status, frames, statusTimers, telemetryTimers >>]_vars

(***************************************************************************)
(* C10 as claimed: when a start request succeeds the telemetry puller      *)
(* becomes active at once, without waiting for a status pull to report     *)
(* is_running = true.                                                      *)
(***************************************************************************)
StartSucceeded ==
    \E i \in 1 .. Len(startCalls) :
        /\ startCalls[i].stage = "ok" /\ startCalls[i].live
        /\ startCalls' = RemoveAt(startCalls, i)
        /\ alertShown' = NoAlert

C10_ActivatedAtOnce ==
    [][StartSucceeded => telemetryTimers' > 0]_vars

(***************************************************************************)
(* C10 amended: when a start request succeeds the view shows the inspector *)
(* pane and leaves the status snapshot as it is; the telemetry timer is    *)
(* armed afterwards exactly when the snapshot already has is_running =     *)
(* true, so the puller waits for a status pull to report the running job.  *)
(***************************************************************************)
C10_PaneShownPullerWaits ==
    [][StartSucceeded =>
           /\ showInspector'
           /\ status' = status
           /\ telemetryTimers' = (IF status.is_running THEN 1 ELSE 0)]_vars

\* a start request has succeeded, the job runs on the backend, the snapshot
\* does not say so yet and no telemetry timer is armed
C10_Witness ==
    /\ startReturn = "sent" /\ startCalls = << >> /\ alertShown = NoAlert
    /\ Shown
    /\ srvStatus.is_running /\ ~status.is_running
    /\ telemetryTimers = 0

(***************************************************************************)
(* C11: when the backend rejects a start request the user is shown the     *)
(* error with the detail message of the response, the telemetry timer is   *)
(* not armed, the status timer stays armed as before, and the status       *)
(* snapshot, the frame buffer, the tree and the inspector flag are         *)
(* unchanged.                                                              *)
(***************************************************************************)
StartRejectionHandled(i) ==
    /\ startCalls[i].stage = "rejected"
    /\ startCalls' = RemoveAt(startCalls, i)

C11_RejectionSurfaced ==
    [][\A i \in 1 .. Len(startCalls) :
           StartRejectionHandled(i) =>
               /\ alertShown' # NoAlert
               /\ alertShown'[1] = "Ingest Error: "
               /\ startCalls[i].detail # "" => alertShown'[2] = startCalls[i].detail
               /\ UNCHANGED << tree, status, showInspector, frames, arrived >>
               /\ UNCHANGED << statusTimers, telemetryTimers, statusPulls, framePulls >>]_vars

\* the rejection of a request of the mounted view is on screen with the
\* backend's detail, the status timer armed and no telemetry timer armed
C11_Witness ==
    /\ alertShown # NoAlert /\ alertShown # "Scan failed"
    /\ alertShown # "Please select a Knowledge Base first!"
    /\ alertShown[1] = "Ingest Error: " /\ alertShown[2] = "busy"
    /\ mounted /\ startReturn = "sent" /\ startCalls = << >>
    /\ statusTimers = 1 /\ telemetryTimers = 0
    /\ IsDefined(tree)

(***************************************************************************)
(* C12 as claimed: a status pull that succeeds replaces the whole snapshot *)
(* with its response; a status pull that fails (the fetch throws, or the   *)
(* backend answers with a non-OK response) leaves the snapshot of the      *)
(* mounted view exactly as it was.                                         *)
(***************************************************************************)
\* the poll() that issued the i-th pull in flight ends in this step
StatusPullEnds(i) ==
    /\ mounted /\ alertShown = NoAlert
    /\ \/ /\ statusPulls[i].stage = "ok" /\ mounted'
          /\ statusPulls' = AfterWrite(statusPulls, i)
       \/ /\ statusPulls[i].stage = "sent" /\ mounted'
          /\ statusPulls' = RemoveAt(statusPulls, i)
       \/ /\ statusPulls[i].stage = "notok"
          /\ lastPoll' = "threw"

C12_FailedPullKeepsSnapshot ==
    [][\A i \in 1 .. Len(statusPulls) :
           StatusPullEnds(i) =>
               IF statusPulls[i].stage = "ok"
               THEN status' = Get(statusPulls[i].body)
               ELSE mounted' /\ status' = status
       ]_vars

\* the part of C12 that holds: a JobStatus response replaces the snapshot,
\* field by field and log entry by log entry; a fetch that throws keeps it
C12_ReplacedOrCaught ==
    [][\A i \in 1 .. Len(statusPulls) :
           StatusPullEnds(i) /\ statusPulls[i].stage # "notok" =>
               IF statusPulls[i].stage = "ok"
               THEN status' = Get(statusPulls[i].body)
               ELSE status' = status
       ]_vars

(***************************************************************************)
(* C13: unmounting the view cancels the status timer and the telemetry     *)
(* timer: while the view is not mounted neither timer is armed, and no     *)
(* status pull and no telemetry pull is issued.                            *)
(***************************************************************************)
C13_UnmountCancelsTimers ==
    /\ [](~mounted => statusTimers = 0 /\ telemetryTimers = 0)
    /\ [][~mounted /\ ~mounted' =>
              /\ Len(statusPulls') <= Len(statusPulls)
              /\ Len(framePulls') <= Len(framePulls)]_vars

\* the view was unmounted while a job ran and its telemetry timer had
\* issued a pull, which is still in flight
C13_Witness ==
    /\ ~mounted /\ srvStatus.is_running
    /\ framePulls # << >>

(***************************************************************************)
(* C14: the first status pull is issued in the step that mounts the view,  *)
(* together with the arming of the status timer; every later status pull   *)
(* is issued by a tick of that timer, one pull per tick.                   *)
(***************************************************************************)
C14_FirstPullAtMount ==
    /\ [][~mounted /\ mounted' =>
              /\ statusPulls' = Append(statusPulls, StatusPull)
              /\ statusTimers' = 1]_vars
    /\ [][mounted /\ Len(statusPulls') > Len(statusPulls) =>
              /\ statusTimers = 1
              /\ statusPulls' = Append(statusPulls, StatusPull)
              /\ UNCHANGED << viewVars, statusTimers >>]_vars

\* the pull issued at mount is still unanswered when a tick issues the next
C14_Witness ==
    /\ mounted /\ status = InitialStatus /\ lastPoll = "none"
    /\ Len(statusPulls) = 2
    /\ \A i \in 1 .. 2 : statusPulls[i].stage = "sent"

(***************************************************************************)
(* C15: while the view stays mounted the status timer stays armed and      *)
(* status pulls keep being issued, whatever is_running is in the snapshot  *)
(* and however many pulls failed before; and if from some point on no      *)
(* status pull fails, the snapshot keeps being refreshed.                  *)
(***************************************************************************)
StatusPullIssued == mounted /\ Len(statusPulls') > Len(statusPulls)

StatusPullFails ==
    \E i \in 1 .. Len(statusPulls) : StatusServedNotOk(i) \/ StatusReject(i)

SnapshotRefreshed ==
    \E i \in 1 .. Len(statusPulls) :
        /\ StatusPullEnds(i) /\ statusPulls[i].stage = "ok"
        /\ status' = Get(statusPulls[i].body)

C16_LastWriteWins ==
    [][\A i \in 1 .. Len(statusPulls) :
           /\ mounted /\ alertShown = NoAlert /\ statusPulls[i].stage = "ok"
           /\ Len(statusPulls') = Len(statusPulls) - 1 /\ mounted'
           /\ \A j \in 1 .. Len(statusPulls') :
                  statusPulls'[j].body = RemoveAt(statusPulls, i)[j].body
           =>
               /\ status' = Get(statusPulls[i].body)
               /\ telemetryTimers' =
                      (IF showInspector /\ Get(statusPulls[i].body).is_running THEN 1 ELSE 0)
       ]_vars

\* the snapshot was written by a pull that completed after a pull issued
\* later than it had completed with another response; both have ended, and
\* the snapshot shows a running job that the backend has finished
C16_Witness ==
    /\ mounted /\ lastPoll = "stale"
    /\ status.is_running /\ ~srvStatus.is_running
    /\ statusPulls = << >>

(***************************************************************************)
(* C17: a telemetry pull that fails (the fetch throws, or the response is  *)
(* not OK) or that returns no frames leaves the frame buffer unchanged,    *)
(* changes no other state of the view (no error is recorded or shown) and  *)
(* leaves the telemetry timer armed: while the pane is shown and the       *)
(* snapshot reports a running job the timer is armed, whatever pulls have  *)
(* failed.                                                                 *)
(***************************************************************************)
\* the i-th pull in flight, issued by the ThoughtStream on the page, ends
FramesPullEnds(i) ==
    /\ framePulls[i].live
    /\ Shown /\ mounted' /\ showInspector'
    /\ framePulls' = RemoveAt(framePulls, i)

\* ... without bringing frames: an exception, a non-OK or an empty response
WithoutFrames(i) ==
    \/ framePulls[i].stage \in { "sent", "notok" }
    \/ framePulls[i].frames = << >>
    \/ lost' # lost

C17_FailureSwallowed ==
    /\ [](Shown /\ status.is_running => telemetryTimers = 1)
    /\ [][\A i \in 1 .. Len(framePulls) :
              FramesPullEnds(i) /\ WithoutFrames(i) =>
                  /\ UNCHANGED << frames, arrived, telemetryTimers >>
                  /\ UNCHANGED << viewVars, alertShown, statusTimers, lastPoll >>]_vars

\* a response with frames has failed; the buffer still holds frames, the
\* timer is armed and the next pull is in flight
C17_Witness ==
    /\ lost # { }
    /\ Shown /\ status.is_running /\ telemetryTimers = 1
    /\ frames # << >>
    /\ framePulls # << >> /\ framePulls[Len(framePulls)].stage = "sent"

(***************************************************************************)
(* C18: with a backend that drains its buffer on read, a frame is in one   *)
(* place at a time (the backend's buffer, one response in flight, or the   *)
(* client's history of appended frames) and in it once, so no frame is     *)
(* appended twice; a frame of a response that failed is in none of them,   *)
(* so no later pull appends it; and a batch that is received is appended   *)
(* whole, frames with the content of frames already in the buffer          *)
(* included.                                                               *)
(***************************************************************************)
RangeOf(seq) == { seq[j] : j \in 1 .. Len(seq) }
NoDuplicate(seq) == \A a, b \in 1 .. Len(seq) : a # b => seq[a] # seq[b]

C18_AtMostOnceNoDedup ==
    /\ [](/\ NoDuplicate(arrived) /\ NoDuplicate(srvFrames)
          /\ RangeOf(arrived) \cap RangeOf(srvFrames) = { }
          /\ lost \cap (RangeOf(arrived) \cup RangeOf(srvFrames)) = { }
          /\ \A i \in 1 .. Len(framePulls) :
                 /\ NoDuplicate(framePulls[i].frames)
                 /\ RangeOf(framePulls[i].frames)
                        \cap (RangeOf(arrived) \cup RangeOf(srvFrames) \cup lost) = { }
                 /\ \A k \in 1 .. Len(framePulls) :
                        k # i => RangeOf(framePulls[i].frames)
                                    \cap RangeOf(framePulls[k].frames) = { })
    /\ [][\A i \in 1 .. Len(framePulls) :
              /\ FramesPullEnds(i) /\ ~WithoutFrames(i)
              /\ alertShown = NoAlert
              =>
                  LET batch == framePulls[i].frames
                      all == frames \o batch
                  IN /\ arrived' = arrived \o batch
                     /\ Len(frames') = (IF Len(all) <= BufferCap THEN Len(all) ELSE BufferCap)
                     /\ \A j \in 1 .. Len(frames') :
                            frames'[j] = all[Len(all) - Len(frames') + j]]_vars

\* the first batch was drained by a pull whose response failed; a later
\* batch has been appended, and no frame of the first is in the buffer
C18_Witness ==
    /\ 1 \in lost
    /\ arrived # << >>
    /\ \A j \in 1 .. Len(arrived) : arrived[j] > ChunkSize
    /\ srvFrames = << >> /\ framePulls = << >>

(***************************************************************************)
(* C19: for the ThoughtStream on the page, a change of the observed        *)
(* is_running from false to true arms one telemetry timer and a change     *)
(* from true to false clears it: at most one timer is armed at any moment, *)
(* and one is armed exactly while the pane is shown and the snapshot has   *)
(* is_running = true.                                                      *)
(***************************************************************************)
C19_OneTimerPerActivation ==
    /\ [](telemetryTimers \in { 0, 1 })
    /\ [](telemetryTimers = 1 <=> (Shown /\ status.is_running))
    /\ [][Shown /\ mounted' /\ showInspector' =>
              /\ (~status.is_running /\ status'.is_running) =>
                     telemetryTimers = 0 /\ telemetryTimers' = 1
              /\ (status.is_running /\ ~status'.is_running) =>
                     telemetryTimers = 1 /\ telemetryTimers' = 0]_vars

\* is_running has turned true again for a ThoughtStream that had had a
\* timer before: one timer is armed
C19_Witness ==
    /\ lastPoll = "rearmed"
    /\ Shown /\ status.is_running /\ telemetryTimers = 1

(***************************************************************************)
(* C20: clearing the telemetry timer does not cancel the pulls in flight:  *)
(* a pull that completes with frames while the snapshot has is_running =   *)
(* false still appends them.  While the snapshot stays inactive no pull is *)
(* issued, and the buffer changes only in a step that ends a pull in       *)
(* flight: by no more than the pulls in flight at the deactivation.        *)
(***************************************************************************)
C20_LatePullsStillAppend ==
    /\ [][\A i \in 1 .. Len(framePulls) :
              /\ FramesPullEnds(i) /\ ~WithoutFrames(i)
              /\ alertShown = NoAlert /\ ~status.is_running
              =>
                  /\ arrived' = arrived \o framePulls[i].frames
                  /\ frames' # frames
                  /\ telemetryTimers' = 0]_vars
    /\ [][~status.is_running /\ ~status'.is_running /\ Shown /\ mounted' /\ showInspector' =>
              /\ Len(framePulls') <= Len(framePulls)
              /\ frames' # frames => Len(framePulls') < Len(framePulls)]_vars

\* the latest frames were appended while the snapshot had is_running =
\* false and no timer was armed
C20_Witness ==
    /\ lateAppend
    /\ Shown /\ ~status.is_running /\ telemetryTimers = 0
    /\ frames # << >>

(***************************************************************************)
(* C21: the telemetry timer and the frame buffer exist only while the      *)
(* inspector pane is shown.  While the pane is not shown no timer is armed *)
(* and the buffer is empty, and no telemetry pull is issued, whatever      *)
(* is_running is; a step that shows the pane leaves the buffer empty; and  *)
(* while the pane stays shown the buffer only changes by the append of a   *)
(* response, so it is not cleared when the snapshot's is_running flips.    *)
(***************************************************************************)
C21_PaneOwnsStream ==
    /\ [](~Shown => telemetryTimers = 0 /\ frames = << >>)
    /\ [][ /\ Len(framePulls') > Len(framePulls) => Shown
           /\ ~Shown /\ Shown' => frames' = << >>
           /\ Shown /\ Shown' =>
                 \/ frames' = frames
                 \/ \E i \in 1 .. Len(framePulls) :
                       /\ framePulls[i].live
                       /\ frames' = appendFrames(frames, getInspectionFrames(framePulls[i]))
         ]_vars

\* the pane was hidden while its buffer held frames and shown again; the
\* buffer then received a later batch and holds nothing else; the job has
\* ended and the snapshot reports a new one, and the buffer is still there
C21_Witness ==
    /\ Shown /\ discarded
    /\ lastPoll = "rearmed" /\ status.is_running
    /\ frames # << >> /\ frames = arrived
    /\ frames[1] > ChunkSize

(***************************************************************************)
(* C22: a start request is issued only in a state where the status         *)
(* snapshot has is_running = false: the button that calls                  *)
(* handleStartIngest is disabled while the snapshot reports a running job, *)
(* so no start request is sent while the view shows a job as running.      *)
(***************************************************************************)
C22_NoStartWhileRunning ==
    [][StartIssued => ~status.is_running /\ ~isStartDisabled]_vars

\* a start request of this view was sent and has resolved; the snapshot now
\* reports a running job, and is_running is all that disables the button
C22_Witness ==
    /\ mounted /\ startReturn = "sent" /\ startCalls = << >>
    /\ status.is_running
    /\ isStartDisabled /\ ~isStartDisabled_ignoresStatus
    /\ alertShown = NoAlert

====
